---- MODULE Spec2Model ----
(***************************************************************************)
(* Batch reconstruction orchestrator (convert_with_batch_processing.py):   *)
(* partition the image list into batch folders, run the three COLMAP       *)
(* stages per batch through run_colmap_command, fold the batch databases   *)
(* into the central database, clean up, then post-process.                 *)
(*                                                                         *)
(* The script is one sequential thread.  Each action below is the code     *)
(* between two points where the script waits for the environment (an       *)
(* external command, or a file-system call whose outcome the code          *)
(* branches on); the environment's answer is the action's \E-bound input.  *)
(***************************************************************************)
EXTENDS Integers, Sequences, FiniteSets, TLC

\* ---------------------------------------------------------------- bounds
MaxImages == 3        \* images in the input folder (Spec)
MaxBatchSize == 2     \* --batch_size ranges over 1..MaxBatchSize
MaxListLen == 4       \* length of the image list (SpecPartition)
MaxFaults == 2        \* environment faults injected in one run (Spec)
MaxRetries == 4       \* retries argument ranges over 0..MaxRetries (SpecRunner)
MaxFoldBatches == 3   \* batch folders handed to merge_databases (SpecFold)
MaxLiveImages == 2    \* images in the input folder (SpecLive)
MaxLiveFaults == 2    \* environment faults injected in one run (SpecLive)

\* ------------------------------------------------------ program constants
DefaultRetries == 1   \* def run_colmap_command(command, timeout=1800, retries=1)

VARIABLES
    images,             \* list of image names found in the input folder
    batch_size,         \* args.batch_size
    skip_matching,      \* args.skip_matching
    resize,             \* args.resize
    pc,                 \* position of the script
    batch_folders,      \* list returned by create_batch_folders (batch numbers)
    copied,             \* batch number -> images copied into batch_<n>, in copy order
    batch_num,          \* loop variable of batch_process_images
    all_sparse_folders, \* list built by batch_process_images
    batch_db,           \* batch number -> the file batch_<n>/database.db
    sparse0,            \* batch numbers whose sparse/0 directory exists
    cmd,                \* command the runner is executing
    attempt,            \* run_colmap_command: attempt
    retries,            \* run_colmap_command: retries
    ret,                \* where run_colmap_command returns to
    outcomes,           \* outcomes of the attempts of the current runner call
    log,                \* conversion_log.txt, one entry per log_and_print
    issued,             \* every subprocess.run made so far, in order
    succeeded,          \* positions in issued of the runs that returned 0
    faults,             \* environment faults still available to this run
    exit_code,          \* process exit status (-1 while running)
    central,            \* the file distorted/database.db
    temp_merged,        \* the file distorted/temp_merged.db
    merge_idx,          \* position in batch_folders the merge loop is at (0-based)
    folded,             \* central's data after each completed fold step
    deleted,            \* batch numbers whose folder shutil.rmtree removed
    clean_idx,          \* position in batch_folders the cleanup loop is at
    scale_idx,          \* position in the scale list the resize loop is at
    file_idx,           \* position in the image list the resize loop is at
    resized,            \* <<scale, image>> -> size of the file in images_<s>
    input_dir,          \* the files in the input folder
    run,                \* which of two successive runs this is (SpecFold)
    other_db,           \* the batch databases of the second run (SpecFold)
    prev_db,            \* the batch databases the first run had (SpecFold)
    prev_folded         \* folded, as the first run left it (SpecFold)

args == <<images, batch_size, skip_matching, resize>>
call == <<cmd, attempt, retries, ret, outcomes>>
batchv == <<batch_num, all_sparse_folders>>
mergev == <<central, temp_merged, merge_idx, folded>>
postv == <<clean_idx, scale_idx, file_idx, resized>>
rerun == <<run, other_db, prev_db, prev_folded>>

vars == <<args, call, batchv, mergev, postv, rerun, pc, batch_folders,
          copied, batch_db, sparse0, deleted, log, issued, faults, exit_code,
          input_dir, succeeded>>

\* ---------------------------------------------------------------- helpers
Min(a, b) == IF a <= b THEN a ELSE b

Range(s) == {s[i] : i \in 1..Len(s)}

\* One log_and_print call: the message kind and its (up to two) arguments.
Entry(msg, a, b) == [msg |-> msg, a |-> a, b |-> b]

\* A file: absent, or present with its data.
NoFile == [exists |-> FALSE, data |-> <<>>]
File(d) == [exists |-> TRUE, data |-> d]

NoCmd == [kind |-> "none", batch |-> -1]
Cmd(kind, b) == [kind |-> kind, batch |-> b]

\* A path: under the source directory itself or under batch_<n>.
Path(root, b, sub) == [root |-> root, batch |-> b, sub |-> sub]

\* os.path.join(args.source_path, args.input_folder)
InputFolderPath == Path("source", -1, "input")

\* os.path.join(source_path, f"batch_{i}")
BatchFolderPath(b) == Path("batch", b, "")

\* ------------------------------------------------------ create_batch_folders
\* math.ceil(total_images / batch_size), batch_size > 0
NumBatchesFloor(total_images, size) == total_images \div size

NumBatches(total_images, size) ==
    IF total_images % size = 0
    THEN total_images \div size
    ELSE (total_images \div size) + 1

\* images[start_idx:end_idx] with start_idx = batch*size and
\* end_idx = min((batch+1)*size, total); Python's 0-based half-open slice is
\* the 1-based closed SubSeq(start_idx + 1, end_idx).
BatchImagesShort(imgs, size, b) ==
    SubSeq(imgs, b * size + 1, Min((b + 1) * size - 1, Len(imgs)))

BatchImages(imgs, size, b) ==
    SubSeq(imgs, b * size + 1, Min((b + 1) * size, Len(imgs)))

RECURSIVE CopyLog(_, _)
CopyLog(imgs, b) ==
    IF imgs = <<>> THEN <<>>
    ELSE <<Entry("copied_image", Head(imgs), b)>> \o CopyLog(Tail(imgs), b)

\* The log written by iterations b .. num-1 of the batch_num loop.
RECURSIVE BatchFolderLog(_, _, _, _)
BatchFolderLog(imgs, size, b, num) ==
    IF b >= num THEN <<>>
    ELSE <<Entry("created_batch_folder", b, Len(BatchImages(imgs, size, b)))>>
         \o CopyLog(BatchImages(imgs, size, b), b)
         \o BatchFolderLog(imgs, size, b + 1, num)

\* Lines 148-152 and create_batch_folders: list the images, create one
\* folder per batch, copy the batch's slice into it, return the folders.
\* The files of a directory after shutil.copy2 has copied some of them
\* elsewhere (lines 63, 177): a copy leaves its source in place.
AfterMove(files, taken) == files \ taken

AfterCopy2(files, taken) == files

CreateBatchFolders ==
    /\ pc = "main"
    /\ ~skip_matching
    /\ LET num == NumBatches(Len(images), batch_size) IN
        /\ batch_folders' = [k \in 1..num |-> k - 1]
        /\ copied' = [b \in 0..(num - 1) |-> BatchImages(images, batch_size, b)]
        /\ batch_db' = [b \in 0..(num - 1) |-> NoFile]
        /\ log' = log \o <<Entry("images_found", Len(images), -1)>>
                      \o BatchFolderLog(images, batch_size, 0, num)
                      \o <<Entry("created_batch_folders", num, -1)>>
    /\ batch_num' = 0
    /\ all_sparse_folders' = <<>>
    /\ pc' = "batch_process_images"
    /\ input_dir' = AfterCopy2(input_dir, Range(images))
    /\ UNCHANGED <<args, succeeded, call, mergev, postv, rerun, sparse0, deleted, issued,
                   faults, exit_code>>

\* ------------------------------------------------------ run_colmap_command
\* `while attempt <= retries`
LoopContinuesStrict(att, r) == att < r

LoopContinuesForever(att, r) == TRUE

LoopContinues(att, r) == att <= r

\* `except Exception` (line 102) catches what derives from Exception;
\* exit() raises SystemExit, which derives from BaseException only.
Caught(exc) == exc \in {"OSError"}

BatchStages == {"feature_extractor", "sequential_matcher", "mapper"}

\* Commands whose output file the script goes on to use.
OutputFiles == {"feature_extractor", "mapper", "database_merger"}

\* An uncaught exception: traceback on stderr, nothing in the log, status 1.
Crash(entries) ==
    /\ log' = log \o entries
    /\ pc' = "crashed"
    /\ exit_code' = 1

\* run_colmap_command(c), returning to r
Call(c, r) ==
    /\ cmd' = c
    /\ attempt' = 0
    /\ retries' = DefaultRetries
    /\ outcomes' = <<>>
    /\ ret' = r
    /\ pc' = "run_colmap_command"

\* database_merger --database_path1 central --database_path2 batch
MergeCmdSwapped(db1, db2) == db2 \o db1

MergeCmd(db1, db2) == db1 \o db2

\* Lines 102-104: log the exception and `continue` with the next batch.
SkipBatch(entries) ==
    /\ log' = log \o entries \o <<Entry("batch_failed_skipping", batch_num, -1)>>
    /\ batch_num' = batch_num + 1
    /\ pc' = "batch_process_images"
    /\ UNCHANGED exit_code

\* exit(code) outside any handler that catches SystemExit.
ExitZero(entries, code) ==
    /\ log' = log \o entries
    /\ pc' = "done"
    /\ exit_code' = 0
    /\ UNCHANGED batch_num

Exit(entries, code) ==
    /\ log' = log \o entries
    /\ pc' = "exited"
    /\ exit_code' = code
    /\ UNCHANGED batch_num

\* One attempt that exits 0: `return` (line 41).  produced says whether the
\* command left its output file behind.
AttemptOk ==
    /\ pc = "run_colmap_command"
    /\ \E produced \in BOOLEAN :
        /\ produced \/ (cmd.kind \in OutputFiles /\ faults > 0)
        /\ faults' = IF produced THEN faults ELSE faults - 1
        /\ batch_db' = IF cmd.kind = "feature_extractor" /\ produced
                       THEN [batch_db EXCEPT ![cmd.batch] = File(<<cmd.batch>>)]
                       ELSE batch_db
        /\ sparse0' = IF cmd.kind = "mapper" /\ produced
                      THEN sparse0 \cup {cmd.batch}
                      ELSE sparse0
        /\ temp_merged' = IF cmd.kind = "database_merger" /\ produced
                          THEN File(MergeCmd(central.data, batch_db[cmd.batch].data))
                          ELSE temp_merged
    /\ issued' = Append(issued, cmd)
    /\ succeeded' = succeeded \cup {Len(issued) + 1}
    /\ outcomes' = Append(outcomes, [how |-> "exit", code |-> 0])
    /\ pc' = ret
    /\ UNCHANGED <<args, input_dir, batchv, postv, rerun, batch_folders, copied, deleted,
                   cmd, attempt, retries, ret, log, exit_code, central,
                   merge_idx, folded>>

FailCodes == {1, 2}

\* `attempt += 1` (line 45), reached after either kind of failure
NextAttemptExitOnly(att, how) == IF how = "timeout" THEN att ELSE att + 1

NextAttempt(att, how) == att + 1

FailureEntry(how, code, att) ==
    IF how = "timeout"
    THEN Entry("attempt_timed_out", att + 1, -1)
    ELSE Entry("attempt_failed_code", att + 1, code)

\* What one failed attempt appends to the log: the `if` of line 42 and the
\* `except` of line 43 each call log_and_print once.
FailureLogNoTimeout(how, code, att) ==
    IF how = "timeout" THEN <<>> ELSE <<FailureEntry(how, code, att)>>

FailureLog(how, code, att) == <<FailureEntry(how, code, att)>>

\* One attempt that exits non-zero or times out (lines 42-45), and, when it
\* was the last one the loop allows, lines 46-47.
AttemptFails(how, code) ==
    /\ pc = "run_colmap_command"
    /\ faults > 0
    /\ faults' = faults - 1
    /\ issued' = Append(issued, cmd)
    /\ outcomes' = Append(outcomes, [how |-> how, code |-> code])
    /\ attempt' = NextAttempt(attempt, how)
    /\ LET failed == FailureLog(how, code, attempt) IN
        IF LoopContinues(NextAttempt(attempt, how), retries)
        THEN /\ log' = log \o failed
             /\ UNCHANGED <<pc, exit_code, batch_num>>
        ELSE LET all == failed \o <<Entry("all_attempts_failed", -1, -1)>> IN
             IF cmd.kind \in BatchStages /\ Caught("SystemExit")
             THEN SkipBatch(all)
             ELSE Exit(all, 1)
    /\ UNCHANGED <<args, input_dir, succeeded, mergev, postv, rerun, batch_folders, copied,
                   all_sparse_folders, batch_db, sparse0, deleted, cmd,
                   retries, ret>>

RunColmapCommand ==
    \/ AttemptOk
    \/ AttemptFails("timeout", 0)
    \/ \E code \in FailCodes : AttemptFails("exit", code)

\* ------------------------------------------------------ batch_process_images
\* The folder the enumerate loop is at.
BatchFolderFirst == batch_folders[1]

BatchFolder == batch_folders[batch_num + 1]

\* `if not all_sparse_folders` (line 108)
NoneValidNever(folders) == FALSE

NoneValid(folders) == folders = <<>>

\* Loop head (lines 75-79): start the next batch with feature extraction;
\* after the last batch, lines 108-112 and the call of merge_databases.
BatchLoop ==
    /\ pc = "batch_process_images"
    /\ IF batch_num < Len(batch_folders)
       THEN /\ log' = Append(log, Entry("processing_batch", batch_num + 1,
                                        Len(batch_folders)))
            /\ Call(Cmd("feature_extractor", BatchFolder),
                    "after_feature_extraction")
            /\ UNCHANGED exit_code
       ELSE IF NoneValid(all_sparse_folders)
            THEN /\ Exit(<<Entry("no_valid_sparse_folders", -1, -1)>>, 1)
                 /\ UNCHANGED call
            ELSE /\ pc' = "merge_databases"
                 /\ UNCHANGED <<log, exit_code, call>>
    /\ UNCHANGED <<args, input_dir, succeeded, batchv, mergev, postv, rerun, batch_folders, copied,
                   batch_db, sparse0, deleted, issued, faults>>

\* Lines 80-81.
FeatureMatching ==
    /\ pc = "after_feature_extraction"
    /\ Call(Cmd("sequential_matcher", BatchFolder), "after_matching")
    /\ UNCHANGED <<args, input_dir, succeeded, batchv, mergev, postv, rerun, batch_folders, copied,
                   batch_db, sparse0, deleted, log, issued, faults, exit_code>>

\* Lines 82-95: os.makedirs(output_dir) and the mapper call.  made says
\* whether os.makedirs succeeded; when it raises OSError the handler of
\* lines 102-104 takes over.
Mapping ==
    /\ pc = "after_matching"
    /\ \E made \in BOOLEAN :
        /\ made \/ faults > 0
        /\ faults' = IF made THEN faults ELSE faults - 1
        /\ IF made
           THEN /\ Call(Cmd("mapper", BatchFolder), "after_mapper")
                /\ UNCHANGED <<log, exit_code, batch_num>>
           ELSE /\ IF Caught("OSError")
                   THEN SkipBatch(<<>>)
                   ELSE Crash(<<>>) /\ UNCHANGED batch_num
                /\ UNCHANGED call
    /\ UNCHANGED <<args, input_dir, succeeded, mergev, postv, rerun, batch_folders, copied,
                   all_sparse_folders, batch_db, sparse0, deleted, issued>>

\* os.path.exists(sparse_folder)
SparseFolderExists(b) == b \in sparse0

\* Lines 96-106: record the batch when its sparse/0 exists, warn otherwise.
CheckSparseFolder ==
    /\ pc = "after_mapper"
    /\ IF SparseFolderExists(BatchFolder)
       THEN /\ log' = Append(log, Entry("added_sparse_folder", BatchFolder, -1))
            /\ all_sparse_folders' = Append(all_sparse_folders, BatchFolder)
       ELSE /\ log' = Append(log, Entry("sparse_folder_not_found", BatchFolder, -1))
            /\ UNCHANGED all_sparse_folders
    /\ batch_num' = batch_num + 1
    /\ pc' = "batch_process_images"
    /\ UNCHANGED <<args, input_dir, succeeded, call, mergev, postv, rerun, batch_folders, copied,
                   batch_db, sparse0, deleted, issued, faults, exit_code>>

\* ------------------------------------------------------ merge_databases
\* os.path.exists(<batch folder>/database.db)
DatabaseExistsAlways(b) == TRUE

DatabaseExistsListed(b) ==
    batch_db[b].exists /\ b \in Range(all_sparse_folders)

DatabaseExists(b) == batch_db[b].exists

\* `for batch_folder in batch_folders[1:]`: the folder the loop is at
MergeFolderReversed == batch_folders[Len(batch_folders) - merge_idx + 1]

MergeFolder == batch_folders[merge_idx + 1]

\* Lines 115-123: copy the first batch's database to the central path.
\* batch_folders[0] of an empty list raises IndexError, a missing first
\* database raises FileNotFoundError; nothing catches either.
MergeInit ==
    /\ pc = "merge_databases"
    /\ IF batch_folders = <<>> \/ ~DatabaseExists(batch_folders[1])
       THEN /\ Crash(<<Entry("merging_batch_databases", -1, -1)>>)
            /\ UNCHANGED mergev
       ELSE /\ central' = File(batch_db[batch_folders[1]].data)
            /\ folded' = <<batch_db[batch_folders[1]].data>>
            /\ merge_idx' = 1
            /\ log' = log \o <<Entry("merging_batch_databases", -1, -1),
                               Entry("initialized_central_database",
                                     batch_folders[1], -1)>>
            /\ pc' = "merge_loop"
            /\ UNCHANGED <<temp_merged, exit_code>>
    /\ UNCHANGED <<args, input_dir, succeeded, call, batchv, postv, rerun, batch_folders, copied,
                   batch_db, sparse0, deleted, issued, faults>>

\* `for batch_folder in batch_folders[1:]` (line 125): folders remain
MergeLoopStopsEarly == merge_idx < Len(batch_folders) - 1

MergeLoopContinues == merge_idx < Len(batch_folders)

\* Loop head (lines 125-132): skip a missing database, else call
\* database_merger; after the last folder, lines 135-137.
MergeLoop ==
    /\ pc = "merge_loop"
    /\ IF MergeLoopContinues
       THEN IF ~DatabaseExists(MergeFolder)
            THEN /\ log' = Append(log, Entry("skipping_missing_database",
                                             MergeFolder, -1))
                 /\ merge_idx' = merge_idx + 1
                 /\ folded' = Append(folded, central.data)
                 /\ UNCHANGED <<pc, call, clean_idx>>
            ELSE /\ Call(Cmd("database_merger", MergeFolder), "after_merge")
                 /\ UNCHANGED <<log, merge_idx, folded, clean_idx>>
       ELSE /\ log' = log \o <<Entry("merged_databases", -1, -1),
                               Entry("cleaning_up", -1, -1)>>
            /\ clean_idx' = 0
            /\ pc' = "cleanup"
            /\ UNCHANGED <<call, merge_idx, folded>>
    /\ UNCHANGED <<args, input_dir, succeeded, batchv, rerun, central, temp_merged, scale_idx,
                   file_idx, resized, batch_folders, copied, batch_db, sparse0,
                   deleted, issued, faults, exit_code>>

\* Line 133: shutil.move(temp_merged_path, central_database_path).
MoveTemp ==
    /\ pc = "after_merge"
    /\ IF ~temp_merged.exists
       THEN /\ Crash(<<>>)
            /\ UNCHANGED mergev
       ELSE /\ central' = temp_merged
            /\ temp_merged' = NoFile
            /\ folded' = Append(folded, temp_merged.data)
            /\ merge_idx' = merge_idx + 1
            /\ pc' = "merge_loop"
            /\ UNCHANGED <<log, exit_code>>
    /\ UNCHANGED <<args, input_dir, succeeded, call, batchv, postv, rerun, batch_folders, copied,
                   batch_db, sparse0, deleted, issued, faults>>

\* Where the cleanup loop goes after one shutil.rmtree: the try/except of
\* lines 139-143 swallows a failed deletion, so only the position in the
\* list decides.
AfterRmtreeUnguarded(removed, more) ==
    IF ~removed THEN "crashed" ELSE IF more THEN "cleanup" ELSE "image_undistortion"

AfterRmtree(removed, more) == IF more THEN "cleanup" ELSE "image_undistortion"

\* The files of directory dir after shutil.rmtree of batch folder b.
Rmtree(files, dir, b) == IF BatchFolderPath(b) = dir THEN {} ELSE files

\* Lines 138-143, one iteration: shutil.rmtree(batch_folder).  removed says
\* whether it succeeded; a failure is logged and the loop goes on.  After
\* the last folder merge_databases returns.
CleanupStep ==
    /\ pc = "cleanup"
    /\ clean_idx < Len(batch_folders)
    /\ LET b == batch_folders[clean_idx + 1] IN
       \E removed \in BOOLEAN :
        /\ removed \/ faults > 0
        /\ faults' = IF removed THEN faults ELSE faults - 1
        /\ IF removed
           THEN /\ deleted' = deleted \cup {b}
                /\ batch_db' = [batch_db EXCEPT ![b] = NoFile]
                /\ sparse0' = sparse0 \ {b}
                /\ input_dir' = Rmtree(input_dir, InputFolderPath, b)
                /\ log' = Append(log, Entry("deleted_batch_folder", b, -1))
           ELSE /\ log' = Append(log, Entry("failed_to_delete", b, -1))
                /\ UNCHANGED <<deleted, batch_db, sparse0, input_dir>>
        /\ pc' = AfterRmtree(removed, clean_idx + 1 < Len(batch_folders))
    /\ clean_idx' = clean_idx + 1
    /\ UNCHANGED <<args, succeeded, call, batchv, mergev, rerun, scale_idx, file_idx,
                   resized, batch_folders, copied, issued, exit_code>>

\* ------------------------------------------------------ post-processing
\* Line 147 with --skip_matching: the whole block is skipped.
SkipMatching ==
    /\ pc = "main"
    /\ skip_matching
    /\ pc' = "image_undistortion"
    /\ UNCHANGED <<args, input_dir, succeeded, call, batchv, mergev, postv, rerun, batch_folders,
                   copied, batch_db, sparse0, deleted, log, issued, faults,
                   exit_code>>

Banner == <<Entry("banner", -1, -1), Entry("image_undistortion", -1, -1),
            Entry("banner", -1, -1)>>

\* `--input_path {args.source_path}/sparse/0` of image_undistorter
UndistortInputPath == Path("source", -1, "sparse/0")

\* `--image_path {input_folder_path}` of image_undistorter
UndistortImagePath == InputFolderPath

\* `--output_path {output_dir}` of mapper, output_dir = <batch folder>/sparse;
\* the model the mapper writes is its subdirectory 0.
MapperOutputPath(b) == Path("batch", b, "sparse/0")

\* The paths the stages of this run have written so far: the directory made
\* on line 148, the batch folders, the batch databases, the sparse models
\* found on line 97, the central and the temporary database.
ProducedPaths ==
    (IF ~skip_matching /\ pc # "main"
     THEN {Path("source", -1, "distorted/sparse")} ELSE {})
    \cup {BatchFolderPath(b) : b \in Range(batch_folders)}
    \cup {Path("batch", b, "database.db") :
            b \in {x \in Range(batch_folders) : batch_db[x].exists}
                  \cup Range(central.data)}
    \cup {MapperOutputPath(b) :
            b \in sparse0 \cup Range(all_sparse_folders)}
    \cup (IF central.exists
          THEN {Path("source", -1, "distorted/database.db")} ELSE {})
    \cup (IF temp_merged.exists
          THEN {Path("source", -1, "distorted/temp_merged.db")} ELSE {})

\* Lines 156-160.  input_folder_path is assigned on line 149 only, inside
\* the `if not args.skip_matching` block: line 159 raises NameError without it.
ImageUndistortion ==
    /\ pc = "image_undistortion"
    /\ IF skip_matching
       THEN /\ Crash(Banner)
            /\ UNCHANGED call
       ELSE /\ log' = log \o Banner
            /\ Call(Cmd("image_undistorter", -1), "after_undistort")
            /\ UNCHANGED exit_code
    /\ UNCHANGED <<args, input_dir, succeeded, batchv, mergev, postv, rerun, batch_folders, copied,
                   batch_db, sparse0, deleted, issued, faults>>

\* zip(["images_2", "images_4", "images_8"], ["50%", "25%", "12.5%"]),
\* the factors in thousandths
Factors == <<500, 250, 125>>

\* mogrify -resize <factor> on a file of the given size (thousandths of the
\* original's size)
Mogrify(size, factor) == (size * factor) \div 1000

\* log_and_print("Done.") and the end of the script
Done ==
    /\ pc' = "done"
    /\ exit_code' = 0

\* Lines 162-169: move the sparse model under sparse/0, then start the
\* resize loops when --resize is given, else finish.
RelocateSparse ==
    /\ pc = "after_undistort"
    /\ IF resize /\ images # <<>>
       THEN /\ log' = Append(log, Entry("starting_image_resizing", -1, -1))
            /\ pc' = "resize"
            /\ UNCHANGED exit_code
       ELSE /\ log' = (IF resize
                       THEN Append(log, Entry("starting_image_resizing", -1, -1))
                       ELSE log) \o <<Entry("done", -1, -1)>>
            /\ Done
    /\ scale_idx' = 0
    /\ file_idx' = 0
    /\ UNCHANGED <<args, input_dir, succeeded, call, batchv, mergev, rerun, clean_idx, resized,
                   batch_folders, copied, batch_db, sparse0, deleted, issued,
                   faults>>

\* shutil.copy2(source_file, destination_file) (line 177): the destination
\* file, whatever it held, becomes a copy of the original (size 1000).
Copy2IfAbsent(dest) == IF dest = 0 THEN 1000 ELSE dest

Copy2(dest) == 1000

\* `if result.returncode != 0` (line 179)
ResizeFailedOnlyOne(rc) == rc = 1

ResizeFailed(rc) == rc # 0

\* `exit(result.returncode)` (line 181)
ResizeExitStatusOne(rc) == 1

ResizeExitStatus(rc) == rc

\* Lines 174-181, one image at one scale: copy the original over the
\* destination, run mogrify on the copy, exit with its code when non-zero.
ResizeStep ==
    /\ pc = "resize"
    /\ LET img == images[file_idx + 1]
           factor == Factors[scale_idx + 1]
           last_file == file_idx + 1 = Len(images)
           last_scale == scale_idx + 1 = Len(Factors)
       IN \E rc \in {0} \cup FailCodes :
           /\ rc = 0 \/ faults > 0
           /\ faults' = IF rc = 0 THEN faults ELSE faults - 1
           /\ issued' = Append(issued, Cmd("mogrify", img))
           /\ succeeded' = IF rc = 0 THEN succeeded \cup {Len(issued) + 1}
                                     ELSE succeeded
           /\ resized' = [resized EXCEPT ![<<scale_idx, img>>] =
                             IF rc = 0 THEN Mogrify(Copy2(@), factor)
                                       ELSE Copy2(@)]
           /\ IF ~ResizeFailed(rc)
              THEN /\ file_idx' = IF last_file THEN 0 ELSE file_idx + 1
                   /\ scale_idx' = IF last_file THEN scale_idx + 1 ELSE scale_idx
                   /\ IF last_file /\ last_scale
                      THEN /\ log' = log \o <<Entry("processing_image", img, -1),
                                              Entry("done", -1, -1)>>
                           /\ Done
                      ELSE /\ log' = Append(log, Entry("processing_image", img, -1))
                           /\ UNCHANGED <<pc, exit_code>>
              ELSE /\ Exit(<<Entry("processing_image", img, -1),
                             Entry("resize_failed", img, rc)>>,
                           ResizeExitStatus(rc))
                   /\ UNCHANGED <<scale_idx, file_idx>>
    /\ input_dir' = AfterCopy2(input_dir, {images[file_idx + 1]})
    /\ UNCHANGED <<args, call, batchv, mergev, rerun, clean_idx,
                   batch_folders, copied, batch_db, sparse0, deleted>>

\* ---------------------------------------------------------------- Init
\* The state of a run before its first statement, whatever its inputs.
Fresh ==
    /\ batch_num = 0
    /\ all_sparse_folders = <<>>
    /\ sparse0 = {}
    /\ deleted = {}
    /\ attempt = 0
    /\ outcomes = <<>>
    /\ log = <<>>
    /\ issued = <<>>
    /\ succeeded = {}
    /\ exit_code = -1
    /\ central = NoFile
    /\ temp_merged = NoFile
    /\ merge_idx = 0
    /\ folded = <<>>
    /\ clean_idx = 0
    /\ scale_idx = 0
    /\ file_idx = 0

SingleRun ==
    /\ run = 1
    /\ other_db = <<>>
    /\ prev_db = <<>>
    /\ prev_folded = <<>>

NothingResized == [x \in (0..(Len(Factors) - 1)) \X Range(images) |-> 0]

\* The whole script, from the parsed arguments on.
Init ==
    /\ Fresh
    /\ SingleRun
    /\ \E n \in 0..MaxImages : images = [i \in 1..n |-> i]
    /\ input_dir = Range(images)
    /\ batch_size \in 1..MaxBatchSize
    /\ skip_matching \in BOOLEAN
    /\ resize \in BOOLEAN
    /\ batch_folders = <<>>
    /\ copied = <<>>
    /\ batch_db = <<>>
    /\ resized = NothingResized
    /\ pc = "main"
    /\ cmd = NoCmd
    /\ ret = "none"
    /\ retries = DefaultRetries
    /\ faults = MaxFaults

Next ==
    \/ CreateBatchFolders
    \/ SkipMatching
    \/ BatchLoop
    \/ RunColmapCommand
    \/ FeatureMatching
    \/ Mapping
    \/ CheckSparseFolder
    \/ MergeInit
    \/ MergeLoop
    \/ MoveTemp
    \/ CleanupStep
    \/ ImageUndistortion
    \/ RelocateSparse
    \/ ResizeStep

Spec == Init /\ [][Next]_vars

\* The whole script again, one image per batch, for the properties of the
\* pipeline as a whole: the order of its stages and its termination.  The
\* script is one thread and every subprocess.run returns or times out: a
\* step that can be taken is taken.
InitLive ==
    /\ Fresh
    /\ SingleRun
    /\ \E n \in 0..MaxLiveImages : images = [i \in 1..n |-> i]
    /\ input_dir = Range(images)
    /\ batch_size = 1
    /\ skip_matching \in BOOLEAN
    /\ resize \in BOOLEAN
    /\ batch_folders = <<>>
    /\ copied = <<>>
    /\ batch_db = <<>>
    /\ resized = NothingResized
    /\ pc = "main"
    /\ cmd = NoCmd
    /\ ret = "none"
    /\ retries = DefaultRetries
    /\ faults = MaxLiveFaults

SpecLive == InitLive /\ [][Next]_vars /\ WF_vars(Next)

\* The image lists os.listdir can return for n files: every order.
Listings(n) == {s \in [1..n -> 1..n] : \A i, j \in 1..n : s[i] = s[j] => i = j}

\* create_batch_folders on every image list and batch size.
InitPartition ==
    /\ Fresh
    /\ SingleRun
    /\ \E n \in 0..MaxListLen : images \in Listings(n)
    /\ input_dir = Range(images)
    /\ batch_size \in 1..MaxBatchSize
    /\ skip_matching = FALSE
    /\ resize = FALSE
    /\ batch_folders = <<>>
    /\ copied = <<>>
    /\ batch_db = <<>>
    /\ resized = <<>>
    /\ pc = "main"
    /\ cmd = NoCmd
    /\ ret = "none"
    /\ retries = DefaultRetries
    /\ faults = 0

NextPartition == CreateBatchFolders

SpecPartition == InitPartition /\ [][NextPartition]_vars

\* One call run_colmap_command(command, retries = r) on its own.
InitRunner ==
    /\ Fresh
    /\ SingleRun
    /\ images = <<>>
    /\ input_dir = Range(images)
    /\ batch_size = 1
    /\ skip_matching = FALSE
    /\ resize = FALSE
    /\ batch_folders = <<>>
    /\ copied = <<>>
    /\ batch_db = <<>>
    /\ resized = <<>>
    /\ pc = "run_colmap_command"
    /\ cmd = Cmd("command", -1)
    /\ ret = "returned"
    /\ retries \in 0..MaxRetries
    /\ faults = MaxRetries + 1

NextRunner == RunColmapCommand

SpecRunner == InitRunner /\ [][NextRunner]_vars

\* merge_databases (lines 114-135) on every list of batch folders, each
\* database missing or holding one of two contents, run twice: once on
\* batch_db and, from a fresh state, once on other_db.
DbFiles == {NoFile} \cup {File(<<t>>) : t \in {0, 1}}

InitFold ==
    /\ Fresh
    /\ run = 1
    /\ prev_db = <<>>
    /\ prev_folded = <<>>
    /\ \E n, m \in 1..MaxFoldBatches :
        /\ batch_folders = [k \in 1..n |-> k - 1]
        /\ batch_db \in [0..(n - 1) -> DbFiles]
        /\ other_db \in [0..(m - 1) -> DbFiles]
        /\ other_db[0] = batch_db[0]
    /\ images = <<>>
    /\ input_dir = Range(images)
    /\ batch_size = 1
    /\ skip_matching = FALSE
    /\ resize = FALSE
    /\ copied = <<>>
    /\ resized = <<>>
    /\ pc = "merge_databases"
    /\ cmd = NoCmd
    /\ ret = "none"
    /\ retries = DefaultRetries
    /\ faults = MaxFaults

\* The first run is over (the fold completed, or the process ended):
\* keep what it folded and start the second run on other_db.
Rerun ==
    /\ run = 1
    /\ pc \in {"cleanup", "exited", "crashed"}
    /\ run' = 2
    /\ prev_db' = batch_db
    /\ prev_folded' = folded
    /\ batch_db' = other_db
    /\ batch_folders' = [k \in 1..Cardinality(DOMAIN other_db) |-> k - 1]
    /\ pc' = "merge_databases"
    /\ cmd' = NoCmd
    /\ ret' = "none"
    /\ attempt' = 0
    /\ outcomes' = <<>>
    /\ log' = <<>>
    /\ issued' = <<>>
    /\ succeeded' = {}
    /\ exit_code' = -1
    /\ central' = NoFile
    /\ temp_merged' = NoFile
    /\ merge_idx' = 0
    /\ folded' = <<>>
    /\ faults' = MaxFaults
    /\ UNCHANGED <<args, input_dir, batchv, postv, retries, other_db, copied, sparse0,
                   deleted>>

NextFold ==
    \/ MergeInit
    \/ MergeLoop
    \/ MoveTemp
    \/ RunColmapCommand
    \/ Rerun

SpecFold == InitFold /\ [][NextFold]_vars

\* The resize loops alone (lines 170-183), entered with output directories
\* that an earlier run may have filled: each images_<s> directory is empty
\* or holds a file of some other size for every image.
StaleSizes == {0, 300}

InitResize ==
    /\ Fresh
    /\ SingleRun
    /\ \E n \in 1..MaxImages : images = [i \in 1..n |-> i]
    /\ \E stale \in [0..(Len(Factors) - 1) -> StaleSizes] :
          resized = [x \in (0..(Len(Factors) - 1)) \X Range(images) |->
                        stale[x[1]]]
    /\ input_dir = Range(images)
    /\ batch_size = 1
    /\ skip_matching = FALSE
    /\ resize = TRUE
    /\ batch_folders = <<>>
    /\ copied = <<>>
    /\ batch_db = <<>>
    /\ pc = "resize"
    /\ cmd = NoCmd
    /\ ret = "none"
    /\ retries = DefaultRetries
    /\ faults = MaxFaults

NextResize == ResizeStep

SpecResize == InitResize /\ [][NextResize]_vars

\* ================================================================ claims
Partitioned == pc # "main"

RECURSIVE SumLen(_, _)
SumLen(f, n) == IF n = 0 THEN 0 ELSE Len(f[n - 1]) + SumLen(f, n - 1)

\* C1: create_batch_folders returns exactly ceil(N/B) batch folders (the
\* least n with n*B >= N), the numbers of images copied into them sum to
\* N, and the member sets are pairwise disjoint and together are the whole
\* image list.
C1_PartitionIsExact ==
    Partitioned =>
        LET n == Len(batch_folders)
            N == Len(images)
        IN  /\ n * batch_size >= N
            /\ n > 0 => (n - 1) * batch_size < N
            /\ DOMAIN copied = 0..(n - 1)
            /\ SumLen(copied, n) = N
            /\ \A a, b \in 0..(n - 1) :
                   a # b => Range(copied[a]) \cap Range(copied[b]) = {}
            /\ UNION {Range(copied[b]) : b \in 0..(n - 1)} = Range(images)

C1_Witness ==
    /\ Partitioned
    /\ Len(images) = 4
    /\ batch_size = 1
    /\ Len(batch_folders) = 4
    /\ Range(copied[3]) = {images[4]}

\* C2: batch i (0-based, contiguous) holds exactly the images at list
\* positions [i*B, min((i+1)*B, N)) in list order; every batch but the
\* last holds B images and no created batch is empty.
C2_BatchIsSlice ==
    Partitioned =>
        LET n == Len(batch_folders)
            N == Len(images)
        IN  /\ \A k \in 1..n : batch_folders[k] = k - 1
            /\ \A b \in 0..(n - 1) :
                   /\ Len(copied[b]) =
                          (IF b < n - 1 THEN batch_size ELSE N - b * batch_size)
                   /\ Len(copied[b]) > 0
                   /\ \A j \in 1..Len(copied[b]) :
                          copied[b][j] = images[b * batch_size + j]

C2_Witness ==
    /\ Partitioned
    /\ images = <<3, 1, 2>>
    /\ batch_size = 2
    /\ copied[0] = <<3, 1>>
    /\ copied[1] = <<2>>

IsFailure(o) == o.how = "timeout" \/ o.code # 0

AllFailed == \A i \in 1..Len(outcomes) : IsFailure(outcomes[i])

FailureMsgs == {"attempt_timed_out", "attempt_failed_code"}

\* C3: for a command that fails on every attempt the runner makes exactly
\* retries+1 attempts, logs each failed attempt, and then terminates the
\* process with a non-zero status; never more or fewer attempts.
C3_ExactlyRetriesPlusOne ==
    AllFailed =>
        /\ Len(outcomes) <= retries + 1
        /\ Len(issued) = Len(outcomes)
        /\ Len(outcomes) < retries + 1 =>
               /\ pc = "run_colmap_command"
               /\ exit_code = -1
               /\ Len(log) = Len(outcomes)
        /\ Len(outcomes) = retries + 1 =>
               /\ pc = "exited"
               /\ exit_code > 0
               /\ Len(log) = retries + 2
               /\ log[retries + 2].msg = "all_attempts_failed"
        /\ \A k \in 1..Len(outcomes) :
               /\ log[k].msg \in FailureMsgs
               /\ log[k].a = k

C3_Witness ==
    /\ pc = "exited"
    /\ retries = 2
    /\ Len(outcomes) = 3
    /\ outcomes[1].how = "timeout"
    /\ outcomes[2].how = "exit"
    /\ exit_code = 1

FirstOk == CHOOSE i \in 1..(Len(outcomes) + 1) :
               /\ i <= Len(outcomes) => ~IsFailure(outcomes[i])
               /\ \A j \in 1..(i - 1) : IsFailure(outcomes[j])

\* C4: whatever the attempt outcomes, the runner returns at the first
\* attempt that exits 0 and attempts nothing after it; a timeout and a
\* non-zero exit each consume exactly one attempt, so a finished call made
\* min(index of first success, retries+1) attempts.
C4_ReturnsAtFirstSuccess ==
    /\ \A i \in 1..(Len(outcomes) - 1) : IsFailure(outcomes[i])
    /\ attempt = Cardinality({i \in 1..Len(outcomes) : IsFailure(outcomes[i])})
    /\ Len(issued) = Len(outcomes)
    /\ pc = "returned" <=> (outcomes # <<>> /\ ~AllFailed)
    /\ pc = "exited" <=> (AllFailed /\ Len(outcomes) = retries + 1)
    /\ pc \in {"returned", "exited"} =>
           Len(outcomes) = Min(FirstOk, retries + 1)

C4_Witness ==
    /\ pc = "returned"
    /\ Len(outcomes) = 3
    /\ outcomes[1].how = "timeout"
    /\ outcomes[2] = [how |-> "exit", code |-> 2]
    /\ outcomes[3] = [how |-> "exit", code |-> 0]

Logged(msg, a) == \E i \in 1..Len(log) : log[i].msg = msg /\ log[i].a = a

LastLog == log[Len(log)].msg

Issued(kind, b) == \E i \in 1..Len(issued) : issued[i] = Cmd(kind, b)

IssuedKinds == {issued[i].kind : i \in 1..Len(issued)}

\* A stage command of the current batch has failed on all its attempts.
StageExhausted ==
    /\ cmd.kind \in BatchStages
    /\ outcomes # <<>>
    /\ AllFailed
    /\ Len(outcomes) = retries + 1

\* C5: when one of a batch's three stage commands has failed on all its
\* attempts the batch is skipped: the cause is logged, the batch yields no
\* reconstruction, and the run goes on with the remaining batches instead
\* of aborting.
C5_FailedBatchIsSkipped ==
    StageExhausted =>
        /\ pc # "exited"
        /\ exit_code = -1
        /\ Logged("batch_failed_skipping", cmd.batch)
        /\ cmd.batch \notin Range(all_sparse_folders)

\* C6: a batch whose three commands exit 0 but which leaves no sparse/0 is
\* logged, the run continues, and the batch is excluded from the merge:
\* its database is neither passed to database_merger nor used to initialise
\* the central database.
C6_SoftFailedBatchNotMerged ==
    \A b \in Range(batch_folders) :
        (Issued("mapper", b) /\ pc # "run_colmap_command" /\ b \notin sparse0
           /\ b \notin deleted /\ batch_num > b)
        => /\ Logged("sparse_folder_not_found", b)
           /\ ~Issued("database_merger", b)
           /\ ~Logged("initialized_central_database", b)

\* The fold has started and no batch folder has been cleaned up yet.
Folding == folded # <<>> /\ clean_idx = 0

\* The data of the databases present among the first k batch folders, in
\* folder order.
RECURSIVE PresentData(_)
PresentData(k) ==
    IF k = 0 THEN <<>>
    ELSE PresentData(k - 1)
         \o (IF batch_db[batch_folders[k]].exists
             THEN batch_db[batch_folders[k]].data ELSE <<>>)

\* C7: merge_databases is a strict left fold in ascending batch order: the
\* central database starts as a copy of batch 0's database; each present
\* database i >= 1 is merged as (central, batch i) into the temporary file,
\* which then replaces central; nothing is merged twice or out of order,
\* and after every completed step central is the fold of the present
\* databases up to that step.
C7_StrictLeftFold ==
    Folding =>
        /\ batch_db[0].exists
        /\ folded[1] = batch_db[0].data
        /\ Len(folded) = merge_idx
        /\ central = File(folded[merge_idx])
        /\ \A k \in 1..Len(folded) : folded[k] = PresentData(k)
        /\ \A i, j \in 1..Len(central.data) :
               i < j => central.data[i] < central.data[j]
        /\ temp_merged.exists =>
               /\ pc = "after_merge"
               /\ temp_merged.data = PresentData(merge_idx + 1)
               /\ temp_merged.data =
                      central.data \o batch_db[batch_folders[merge_idx + 1]].data

C7_Witness ==
    /\ Folding
    /\ Len(batch_folders) = 3
    /\ merge_idx = 3
    /\ folded = << <<0>>, <<0, 1>>, <<0, 1, 2>> >>
    /\ central.data = <<0, 1, 2>>

\* The merge loop is at a folder whose database.db is missing.
AtMissingDatabase ==
    /\ pc = "merge_loop"
    /\ merge_idx < Len(batch_folders)
    /\ ~batch_db[batch_folders[merge_idx + 1]].exists

\* C8: when batch i's database (i >= 1) is missing at merge time, step i
\* issues no merge command and leaves the central database as it was; the
\* only effect is one log entry, and the fold goes on with batch i+1.
C8_MissingDatabaseIsNoOp ==
    [][AtMissingDatabase =>
          /\ central' = central
          /\ temp_merged' = temp_merged
          /\ issued' = issued
          /\ log' = Append(log, Entry("skipping_missing_database",
                                      batch_folders[merge_idx + 1], -1))
          /\ merge_idx' = merge_idx + 1
          /\ pc' = "merge_loop"
          /\ UNCHANGED <<args, input_dir, succeeded, call, batchv, postv, batch_folders, copied,
                         batch_db, sparse0, deleted, faults, exit_code>>]_vars

C8_Witness ==
    /\ pc = "merge_loop"
    /\ Len(batch_folders) = 3
    /\ merge_idx = 3
    /\ ~batch_db[1].exists
    /\ Logged("skipping_missing_database", 1)
    /\ Issued("database_merger", 2)
    /\ ~Issued("database_merger", 1)
    /\ central.data = <<0, 2>>

\* C9: prefix-determinism of the fold: in two runs whose batches 0..k have
\* identical databases, the central database after folding batches 0..k is
\* the same, whatever batches k+1.. are, hold, or do to the run.
C9_PrefixDeterminism ==
    run = 2 =>
        \A k \in 1..Min(Len(folded), Len(prev_folded)) :
            (\A j \in 0..(k - 1) : batch_db[j] = prev_db[j])
                => folded[k] = prev_folded[k]

C9_Witness ==
    /\ run = 2
    /\ Cardinality(DOMAIN prev_db) = 3
    /\ Cardinality(DOMAIN batch_db) = 3
    /\ batch_db[0] = prev_db[0]
    /\ batch_db[1] = prev_db[1]
    /\ batch_db[1].exists
    /\ prev_db[2] = File(<<1>>)
    /\ ~batch_db[2].exists
    /\ Len(prev_folded) = 3
    /\ Len(folded) = 3
    /\ folded[2] = prev_folded[2]
    /\ folded[3] # prev_folded[3]

PostProcessingKinds == {"image_undistorter", "mogrify"}

\* C10: a run (without --skip_matching) in which no batch has yielded a
\* usable reconstruction, the run on zero images included, never issues a
\* merge or post-processing command and can only end by an explicit,
\* logged exit with a non-zero status, never by an uncaught exception.
C10_NoReconstructionIsFatal ==
    (~skip_matching /\ all_sparse_folders = <<>>) =>
        /\ IssuedKinds \cap ({"database_merger"} \cup PostProcessingKinds) = {}
        /\ pc \in {"main", "batch_process_images", "run_colmap_command",
                   "after_feature_extraction", "after_matching",
                   "after_mapper", "exited"}
        /\ ~central.exists
        /\ pc = "exited" =>
               /\ exit_code > 0
               /\ LastLog \in {"no_valid_sparse_folders", "all_attempts_failed"}
        /\ (pc = "batch_process_images" /\ batch_num = Len(batch_folders)) =>
               ENABLED BatchLoop

C10_Witness ==
    /\ ~skip_matching
    /\ images = <<>>
    /\ batch_folders = <<>>
    /\ pc = "exited"
    /\ exit_code = 1
    /\ LastLog = "no_valid_sparse_folders"
    /\ issued = <<>>

C10_WitnessSoft ==
    /\ ~skip_matching
    /\ Len(batch_folders) = 2
    /\ pc = "exited"
    /\ Logged("sparse_folder_not_found", 0)
    /\ Logged("sparse_folder_not_found", 1)
    /\ LastLog = "no_valid_sparse_folders"

\* The runner call in progress has made every attempt the loop allows and
\* each of them failed.
Exhausted(kind) ==
    /\ cmd.kind = kind
    /\ Len(outcomes) = retries + 1
    /\ AllFailed

\* C11: a database_merger command that fails on all its attempts ends the
\* run: the process has exited with a non-zero status, temp_merged.db has
\* not replaced the central database for that step (central still holds the
\* result of the previous step), and nothing ran afterwards: the failed
\* merger is the last command issued, no batch folder was deleted and no
\* post-processing command was issued.
C11_MergeFailureIsFatal ==
    Exhausted("database_merger") =>
        /\ pc = "exited"
        /\ exit_code > 0
        /\ LastLog = "all_attempts_failed"
        /\ ~temp_merged.exists
        /\ Len(folded) = merge_idx
        /\ central = File(folded[merge_idx])
        /\ MergeFolder = cmd.batch
        /\ issued[Len(issued)] = cmd
        /\ deleted = {}
        /\ clean_idx = 0
        /\ ~Logged("cleaning_up", -1)
        /\ IssuedKinds \cap PostProcessingKinds = {}

C11_Witness ==
    /\ Exhausted("database_merger")
    /\ pc = "exited"
    /\ Len(batch_folders) = 3
    /\ cmd.batch = 1
    /\ central = File(<<0>>)
    /\ batch_db[2].exists

\* Position in the log of the 'Cleaning up batch folders...' entry.
CleaningUpAt == CHOOSE i \in 1..Len(log) : log[i].msg = "cleaning_up"

\* The positions the script can be at once merge_databases has returned.
AfterMerge == {"image_undistortion", "run_colmap_command", "after_undistort",
               "resize", "done", "exited"}

\* C12: once the fold has completed, the cleanup loop attempts to delete
\* every batch folder, in list order, and logs each attempt: the k-th entry
\* after 'Cleaning up' is about the k-th batch folder and says whether it
\* was deleted.  A failed deletion does not stop the pass (the loop is still
\* running while folders remain, with no exit status set), and after the
\* last folder merge_databases has returned with the central database in
\* place.
C12_CleanupAttemptsEveryFolder ==
    (pc = "cleanup" \/ clean_idx > 0) =>
        /\ Logged("cleaning_up", -1)
        /\ clean_idx <= Len(batch_folders)
        /\ Len(log) >= CleaningUpAt + clean_idx
        /\ \A k \in 1..clean_idx :
              LET e == log[CleaningUpAt + k] IN
                /\ e.a = batch_folders[k]
                /\ e.msg = IF batch_folders[k] \in deleted
                           THEN "deleted_batch_folder" ELSE "failed_to_delete"
        /\ deleted \subseteq {batch_folders[k] : k \in 1..clean_idx}
        /\ clean_idx < Len(batch_folders) => (pc = "cleanup" /\ exit_code = -1)
        /\ clean_idx = Len(batch_folders) =>
              /\ pc \in AfterMerge
              /\ central.exists
              /\ Len(folded) = Len(batch_folders)

C12_Witness ==
    /\ pc = "image_undistortion"
    /\ Len(batch_folders) = 3
    /\ clean_idx = 3
    /\ deleted = {0, 2}
    /\ Logged("failed_to_delete", 1)
    /\ exit_code = -1

\* The return codes the attempts of the current runner call ended with.
ReturnCodes == {outcomes[i].code : i \in {j \in 1..Len(outcomes) :
                                             outcomes[j].how = "exit"}}

RunnerGaveUp == pc = "exited" /\ LastLog = "all_attempts_failed"

ResizeGaveUp == pc = "exited" /\ LastLog = "resize_failed"

\* C13, as stated: the exit status is 0 when the run completes, and after a
\* fatal command failure it is a return code of the failing command.
C13_StatusIsCommandCode ==
    /\ pc = "done" => exit_code = 0
    /\ (RunnerGaveUp /\ ReturnCodes # {}) => exit_code \in ReturnCodes
    /\ ResizeGaveUp => exit_code = log[Len(log)].b

\* C13, amended: the exit status is 0 exactly when the run completes with
\* 'Done.'; when a command run through run_colmap_command fails on all its
\* attempts the status is 1, whatever the command returned; when a resize
\* command fails the status is that command's own non-zero return code.
C13_ExitStatus ==
    /\ exit_code = 0 <=> pc = "done"
    /\ pc = "done" => LastLog = "done"
    /\ RunnerGaveUp => exit_code = 1
    /\ ResizeGaveUp =>
          /\ exit_code = log[Len(log)].b
          /\ exit_code # 0

C13_Witness ==
    /\ RunnerGaveUp
    /\ ReturnCodes = {2}
    /\ Len(outcomes) = 2
    /\ exit_code = 1

C13_WitnessResize ==
    /\ ResizeGaveUp
    /\ exit_code = 2

\* The attempts of the current runner call that failed.
FailedAttempts == {i \in 1..Len(outcomes) : IsFailure(outcomes[i])}

\* C14, as stated: the runner call has written one log entry per attempt
\* made, successful or not.
C14_OneEntryPerAttempt == Len(log) = Len(outcomes)

\* C14, amended: the runner writes one log entry per failed attempt, in
\* order and numbered from 1, none for the attempt that succeeds, and one
\* more ('All attempts failed') when it gives up: the entries of one call
\* number the failed attempts, plus one after exhaustion.
C14_OneEntryPerFailedAttempt ==
    /\ Len(log) = Cardinality(FailedAttempts) + (IF pc = "exited" THEN 1 ELSE 0)
    /\ \A k \in FailedAttempts :
          /\ log[k].msg = (IF outcomes[k].how = "timeout"
                           THEN "attempt_timed_out" ELSE "attempt_failed_code")
          /\ log[k].a = k
    /\ pc = "exited" => LastLog = "all_attempts_failed"
    /\ pc = "returned" =>
          /\ FailedAttempts = 1..(Len(outcomes) - 1)
          /\ Len(log) = Len(outcomes) - 1

C14_Witness ==
    /\ pc = "returned"
    /\ Len(outcomes) = 3
    /\ Len(log) = 2
    /\ log[1].msg = "attempt_timed_out"
    /\ log[2].msg = "attempt_failed_code"

\* The log entries that report a fatal failure.
FatalMsgs == {"all_attempts_failed", "no_valid_sparse_folders", "resize_failed"}

\* The log entries that report a skipped batch.
BatchSkipMsgs == {"batch_failed_skipping", "sparse_folder_not_found"}

\* C15: every failure path logs before it exits or continues: a process
\* that has ended with a non-zero status wrote a failure entry last, every
\* batch the driver has passed without recording its reconstruction has a
\* skip entry, and every merge step that left the central database as it
\* was has a 'Skipping missing database' entry.
C15_FailureIsLogged ==
    /\ exit_code > 0 => (log # <<>> /\ LastLog \in FatalMsgs)
    /\ \A k \in 1..batch_num :
          batch_folders[k] \notin Range(all_sparse_folders) =>
              \E m \in BatchSkipMsgs : Logged(m, batch_folders[k])
    /\ \A k \in 2..Len(folded) :
          folded[k] = folded[k - 1] =>
              Logged("skipping_missing_database", batch_folders[k])

\* C16: no run ends in an uncaught exception.
C16_NoUncaughtException == pc # "crashed"

\* C17: once image_undistorter has been issued, the sparse-model path it
\* was given is a path an earlier stage of this run has produced, and its
\* image path is the input folder, not a batch folder.
C17_UndistortReadsProducedModel ==
    Issued("image_undistorter", -1) =>
        /\ UndistortInputPath \in ProducedPaths
        /\ UndistortImagePath = InputFolderPath
        /\ UndistortImagePath.root # "batch"

\* The resize loops have successfully processed image number i at scale s.
Processed(s, i) == s < scale_idx \/ (s = scale_idx /\ i <= file_idx)

\* C18: every file the resize loops have processed is the original scaled
\* once by its directory's factor, exactly 50%, 25% or 12.5% of the
\* original size, whatever the output directory held before: the command
\* ran on a fresh copy of the original, not on what an earlier run left.
C18_ResizeFromFreshCopy ==
    \A s \in 0..(Len(Factors) - 1) : \A i \in 1..Len(images) :
        /\ Processed(s, i) => resized[<<s, images[i]>>] = Factors[s + 1]
        /\ resized[<<s, images[i]>>] \in
              StaleSizes \cup {1000, Factors[s + 1]}

C18_Witness ==
    /\ pc = "resize"
    /\ Len(images) = 2
    /\ scale_idx = 1
    /\ file_idx = 1
    /\ resized[<<0, 1>>] = 500
    /\ resized[<<1, 1>>] = 250
    /\ resized[<<1, 2>>] = 300
    /\ resized[<<2, 1>>] = 300

\* The files on which a resize command failed: mogrify left the unresized
\* copy of the original behind.
FailedResizes == {x \in DOMAIN resized : resized[x] = 1000}

\* C19: a failed post-processing command ends the run at once with a
\* non-zero status.  After image_undistorter has failed on all attempts
\* the process has exited, it is the last command issued, and neither the
\* resize stage nor 'Done.' was reached.  After a resize command has
\* failed the process has exited with the failure as its last log entry,
\* that command is the last one issued, no file after it was touched, and
\* 'Done.' was not logged.
C19_PostProcessingFailureAborts ==
    /\ Exhausted("image_undistorter") =>
          /\ pc = "exited"
          /\ exit_code > 0
          /\ LastLog = "all_attempts_failed"
          /\ issued[Len(issued)] = cmd
          /\ "mogrify" \notin IssuedKinds
          /\ ~Logged("starting_image_resizing", -1)
          /\ ~Logged("done", -1)
    /\ \A x \in FailedResizes :
          /\ pc = "exited"
          /\ exit_code > 0
          /\ log[Len(log)] = Entry("resize_failed", x[2], exit_code)
          /\ issued[Len(issued)] = Cmd("mogrify", x[2])
          /\ x = <<scale_idx, images[file_idx + 1]>>
          /\ \A s \in 0..(Len(Factors) - 1) : \A i \in 1..Len(images) :
                (~Processed(s, i) /\ <<s, images[i]>> # x) =>
                    resized[<<s, images[i]>>] = 0
          /\ ~Logged("done", -1)

C19_Witness ==
    /\ pc = "exited"
    /\ exit_code = 2
    /\ Len(images) = 2
    /\ FailedResizes = {<<1, 2>>}
    /\ resized[<<1, 1>>] = 250
    /\ resized[<<2, 1>>] = 0

C19_WitnessUndistort ==
    /\ Exhausted("image_undistorter")
    /\ pc = "exited"
    /\ resize
    /\ images # <<>>

\* C20: the input folder is left as it was found.  At every point of the
\* run it holds exactly the files that were listed at the start: the
\* partitioning and the resize loops copy out of it, and the cleanup
\* removes batch folders only.  Every image a batch folder received is
\* still in the input folder.
C20_InputDirUntouched ==
    /\ input_dir = Range(images)
    /\ deleted \subseteq Range(batch_folders)
    /\ \A b \in DOMAIN copied : Range(copied[b]) \subseteq input_dir
    /\ \A b \in deleted : BatchFolderPath(b) # InputFolderPath

C20_Witness ==
    /\ pc = "done"
    /\ resize
    /\ Len(images) = 3
    /\ Len(batch_folders) = 2
    /\ deleted = {0, 1}
    /\ input_dir = {1, 2, 3}
    /\ resized[<<2, 3>>] = 125

\* merge_databases was entered and ended in an exception before it had a
\* central database.
MergeInitFailed ==
    /\ pc = "crashed"
    /\ Logged("merging_batch_databases", -1)
    /\ ~central.exists

\* C21: merge_databases fails before producing a central database only
\* when no batch folder holds a database: with at least one database
\* present, batch 0's or another's, a central database is produced.
C21_OnlyFatalIsNoDatabase ==
    MergeInitFailed =>
        \A b \in Range(batch_folders) : ~DatabaseExists(b)

\* C22: the fold runs over every batch folder the partitioner returned and
\* a batch is merged exactly when its database.db exists, whether or not
\* the driver put it on its list of reconstructions: after step k the
\* central database contains batch k's data iff that batch has a
\* database, and a completed fold has made one step per batch folder.
C22_EligibilityIsDatabaseExistence ==
    Folding =>
        /\ Len(folded) <= Len(batch_folders)
        /\ \A k \in 1..Len(folded) :
              batch_folders[k] \in Range(folded[k]) <=>
                  batch_db[batch_folders[k]].exists
        /\ pc = "cleanup" => Len(folded) = Len(batch_folders)

C22_Witness ==
    /\ Folding
    /\ pc = "cleanup"
    /\ Len(batch_folders) = 2
    /\ all_sparse_folders = <<0>>
    /\ batch_db[1].exists
    /\ central = File(<<0, 1>>)

\* The stage that must have returned success before a stage is started.
StageBefore(kind) ==
    IF kind = "sequential_matcher" THEN "feature_extractor" ELSE "sequential_matcher"

\* The batch folder whose stages are running or have just run.
CurrentBatch == batch_folders[batch_num + 1]

\* C23: the stages of a batch run in the order extraction, matching,
\* mapping, each on the batch's own folder.  In the history of commands,
\* what comes right before a matcher or mapper run is either a failed
\* attempt of the same command or a successful run of the stage before it
\* on the same batch; what comes right before an extractor run is either
\* a failed attempt of the same command or a successful stage of an
\* earlier batch; and the stage in progress is on the folder the batch
\* loop is at.
C23_StagesInOrderOnOwnBatch ==
    /\ \A j \in 1..Len(issued) :
          /\ issued[j].kind \in {"sequential_matcher", "mapper"} =>
                /\ j > 1
                /\ \/ (issued[j - 1] = issued[j] /\ (j - 1) \notin succeeded)
                   \/ /\ issued[j - 1] = Cmd(StageBefore(issued[j].kind),
                                             issued[j].batch)
                      /\ (j - 1) \in succeeded
          /\ (issued[j].kind = "feature_extractor" /\ j > 1) =>
                \/ (issued[j - 1] = issued[j] /\ (j - 1) \notin succeeded)
                \/ /\ issued[j - 1].kind \in BatchStages
                   /\ issued[j - 1].batch < issued[j].batch
                   /\ (j - 1) \in succeeded
    /\ (cmd.kind \in BatchStages /\ batch_num < Len(batch_folders)
            /\ pc \in {"run_colmap_command", "after_feature_extraction",
                       "after_matching", "after_mapper"}) =>
          cmd.batch = CurrentBatch

C23_Witness ==
    /\ pc = "after_mapper"
    /\ cmd = Cmd("mapper", 1)
    /\ Len(issued) = 8
    /\ issued[4] = Cmd("feature_extractor", 1)
    /\ issued[5] = Cmd("feature_extractor", 1)
    /\ issued[6] = Cmd("sequential_matcher", 1)
    /\ issued[7] = Cmd("mapper", 1)
    /\ succeeded = {1, 2, 3, 5, 6, 8}

\* The pipeline stage a command belongs to.
StageRank(kind) ==
    IF kind \in BatchStages THEN 1
    ELSE IF kind = "database_merger" THEN 2
    ELSE IF kind = "image_undistorter" THEN 3
    ELSE 4

MergeStarted ==
    \/ Logged("merging_batch_databases", -1)
    \/ "database_merger" \in IssuedKinds
    \/ central.exists

CleanupStarted == deleted # {} \/ clean_idx > 0

PostProcessingStarted ==
    \/ Logged("image_undistortion", -1)
    \/ IssuedKinds \cap PostProcessingKinds # {}

\* C24: the stages run one after the other.  The commands issued so far
\* are ordered by stage; the merge starts only when the batch loop has
\* gone through every batch; a batch folder is deleted only after the
\* fold has made its step for every batch folder and logged the merge;
\* post-processing starts only after the cleanup has gone through every
\* batch folder; so a run that ended before the fold completed has
\* deleted no batch folder.
C24_StagesNeverOverlap ==
    /\ \A i \in 1..(Len(issued) - 1) :
          StageRank(issued[i].kind) <= StageRank(issued[i + 1].kind)
    /\ MergeStarted => batch_num = Len(batch_folders)
    /\ CleanupStarted =>
          /\ Len(folded) = Len(batch_folders)
          /\ Logged("merged_databases", -1)
          /\ ~temp_merged.exists
          /\ central.data = folded[Len(folded)]
    /\ PostProcessingStarted => clean_idx = Len(batch_folders)
    /\ (pc \in {"exited", "crashed"} /\ ~Logged("merged_databases", -1)) =>
          (deleted = {} /\ clean_idx = 0)

C24_Witness ==
    /\ pc = "exited"
    /\ Exhausted("database_merger")
    /\ Len(batch_folders) = 2
    /\ all_sparse_folders = <<0, 1>>
    /\ central = File(<<0>>)
    /\ deleted = {}
    /\ \A b \in 0..1 : batch_db[b].exists

\* The process has ended, one way or another.
Ended == pc \in {"done", "exited", "crashed"}

\* C25: a run with --skip_matching in which no command fails ends with
\* 'Done.', having issued the undistortion and no partitioning,
\* reconstruction or merge command.
C25_SkipMatchingCompletes ==
    (skip_matching /\ Ended /\ faults = MaxFaults) =>
        /\ pc = "done"
        /\ Issued("image_undistorter", -1)
        /\ IssuedKinds \cap (BatchStages \cup {"database_merger"}) = {}
        /\ batch_folders = <<>>

\* How many times a command was run.
Runs(c) == Cardinality({i \in 1..Len(issued) : issued[i] = c})

\* Every loop is within its bound: at most retries+1 attempts per runner
\* call and per command, one pass per batch in the batch loop, the fold and
\* the cleanup, one resize command per image and scale.
StepsBounded ==
    /\ attempt <= retries + 1
    /\ Len(outcomes) <= retries + 1
    /\ \A i \in 1..Len(issued) :
          Runs(issued[i]) <= (IF issued[i].kind = "mogrify"
                              THEN Len(Factors) ELSE retries + 1)
    /\ Len(batch_folders) <= Len(images)
    /\ batch_num <= Len(batch_folders)
    /\ merge_idx <= Len(batch_folders)
    /\ clean_idx <= Len(batch_folders)
    /\ scale_idx <= Len(Factors)
    /\ file_idx <= Len(images)
    /\ Len(issued) <= (retries + 1) * (4 * Len(batch_folders) + 1)
                          + Len(Factors) * Len(images)

\* C26: every run ends, with 'Done.' or with a process exit, and on the
\* way every loop stays within its bound.
C26_Termination == []StepsBounded /\ <>Ended

C26_Witness ==
    /\ pc = "done"
    /\ resize
    /\ Len(images) = 2
    /\ Len(batch_folders) = 2
    /\ faults = 0
    /\ Len(issued) = 16

====
